---- MODULE Spec2Model ----
(***************************************************************************)
(* Reward-model training script examples/stack_llama/scripts/              *)
(* reward_modeling.py: dataset subsetting, tokenisation, the length        *)
(* filter, the j/k data collator, the pairwise loss, the accuracy metric   *)
(* and the train / save / push lifecycle.                                  *)
(*                                                                         *)
(* Texts are sequences of runs of words (a word is an integer); the        *)
(* tokenizer yields one token per word behind a BOS token.  Rewards are    *)
(* integers (units of 1.0) and the log-sigmoid is kept in thousandths.     *)
(* Fractions (a mean, an accuracy) are records [num, den].                 *)
(***************************************************************************)
EXTENDS Integers, Sequences, FiniteSets, TLC

VARIABLES
    pc,             \* position of the script
    train_dataset,  \* the train split: raw rows, then tokenized rows
    eval_dataset,   \* the eval split
    num_train_epochs, \* script_args.num_train_epochs
    max_steps,      \* optimisation steps the training loop will run
    global_step,    \* optimisation steps done
    checkpoints,    \* steps at which the training loop wrote a checkpoint
    saved,          \* model.save_pretrained has written the last checkpoint
    pushed,         \* model.push_to_hub has uploaded the model
    padding_side,   \* tokenizer.padding_side
    features,       \* the list handed to the data collator
    batch,          \* the collator's output
    rewards_j,      \* model outputs for the j side of a batch
    rewards_k,      \* model outputs for the k side of a batch
    loss,           \* what compute_loss returned
    metrics         \* what compute_metrics returned

vars == <<pc, train_dataset, eval_dataset, num_train_epochs, max_steps, global_step, checkpoints,
          saved, pushed, padding_side, features, batch, rewards_j, rewards_k,
          loss, metrics>>

(***************************************************************************)
(* Bounds of the model                                                     *)
(***************************************************************************)
MaxRows == 2        \* rows of a loaded split
MaxFeatures == 2    \* features in a list handed directly to the collator
MaxEvalRows == 2    \* examples in a batch of rewards
MaxReward == 1      \* rewards range over -MaxReward .. MaxReward

(***************************************************************************)
(* Program constants                                                       *)
(***************************************************************************)
MAX_LENGTH == 512
SAVE_STEPS == 500
DefaultEpochs == 1
per_device_train_batch_size == 4
EOS_TOKEN_ID == 2
BOS_TOKEN_ID == EOS_TOKEN_ID
PAD_TOKEN_ID == EOS_TOKEN_ID
QuestionPrefixWord == 1     \* "Question: "
AnswerPrefixWord == 2       \* "\n\nAnswer: "

(***************************************************************************)
(* Helpers                                                                 *)
(***************************************************************************)
Min(a, b) == IF a <= b THEN a ELSE b
Max(a, b) == IF a >= b THEN a ELSE b

RECURSIVE SeqMax(_)
SeqMax(s) == IF s = <<>> THEN 0 ELSE Max(Head(s), SeqMax(Tail(s)))

RECURSIVE SeqSum(_)
SeqSum(s) == IF s = <<>> THEN 0 ELSE Head(s) + SeqSum(Tail(s))

Repeat(x, n) == [i \in 1..n |-> x]

(***************************************************************************)
(* The remote dataset: row r of a split holds a question and two responses *)
(* whose words name the row and the side.                                  *)
(***************************************************************************)
QuestionWord(r) == 3 * r
ResponseJWord(r) == 3 * r + 1
ResponseKWord(r) == 3 * r + 2

\* A text tokenizes to 4 + n tokens when its response has n words: the pairs
\* of response lengths put a row one token under the limit, at the limit, and
\* one token over it on either side.
AtLimit == MAX_LENGTH - 4
ResponseLens ==
    {<<AtLimit - 1, AtLimit>>, <<AtLimit, AtLimit>>,
     <<AtLimit + 1, AtLimit>>, <<AtLimit, AtLimit + 1>>}

\* A text: runs of words, each run a word and how often it is repeated.
Text(word, count) == <<[word |-> word, count |-> count]>>
QuestionPrefix == Text(QuestionPrefixWord, 1)
AnswerPrefix == Text(AnswerPrefixWord, 1)

RawRow(r, nj, nk) ==
    [question |-> Text(QuestionWord(r), 1),
     response_j |-> Text(ResponseJWord(r), nj),
     response_k |-> Text(ResponseKWord(r), nk)]

RawDatasets(maxRows) ==
    UNION {{[r \in 1..n |-> RawRow(r, lens[r][1], lens[r][2])] :
               lens \in [1..n -> ResponseLens]} : n \in 0..maxRows}

(***************************************************************************)
(* Dataset.select(range(n)): the first n rows, in order; an index past the *)
(* end raises.                                                             *)
(***************************************************************************)
SelectRange(dataset, n) == SubSeq(dataset, 1, n)

(***************************************************************************)
(* The tokenizer: BOS, then one token per word; truncation=True cuts at    *)
(* the tokenizer's model_max_length, which the checkpoint leaves unbounded *)
(***************************************************************************)
\* Vocabulary lookup: the ids up to EOS_TOKEN_ID are the special tokens.
TokenOf(word) == word + EOS_TOKEN_ID
RECURSIVE Encode(_)
Encode(text) ==
    IF text = <<>> THEN <<>>
    ELSE Repeat(TokenOf(Head(text).word), Head(text).count) \o Encode(Tail(text))

tokenizer(text) ==
    LET ids == <<BOS_TOKEN_ID>> \o Encode(text)
    IN  [input_ids |-> ids, attention_mask |-> Repeat(1, Len(ids))]

preprocess_example(ex) ==
    LET tokenized_j == tokenizer(QuestionPrefix \o ex.question \o AnswerPrefix \o ex.response_j)
        tokenized_k == tokenizer(QuestionPrefix \o ex.question \o AnswerPrefix \o ex.response_k)
    IN  [input_ids_j |-> tokenized_j.input_ids,
         attention_mask_j |-> tokenized_j.attention_mask,
         input_ids_k |-> tokenized_k.input_ids,
         attention_mask_k |-> tokenized_k.attention_mask]

preprocess_function(examples) == [i \in 1..Len(examples) |-> preprocess_example(examples[i])]

(***************************************************************************)
(* The length filter                                                       *)
(***************************************************************************)
\* Faulty variants of the filter's predicate: the k side forgotten; the limit
\* itself excluded.
KeepExampleJOnly(x) == Len(x.input_ids_j) <= MAX_LENGTH
KeepExampleStrict(x) == Len(x.input_ids_j) < MAX_LENGTH /\ Len(x.input_ids_k) < MAX_LENGTH

KeepExample(x) == Len(x.input_ids_j) <= MAX_LENGTH /\ Len(x.input_ids_k) <= MAX_LENGTH

RECURSIVE FilterDataset(_)
FilterDataset(dataset) ==
    IF dataset = <<>> THEN <<>>
    ELSE (IF KeepExample(Head(dataset)) THEN <<Head(dataset)>> ELSE <<>>)
         \o FilterDataset(Tail(dataset))

(***************************************************************************)
(* tokenizer.pad: padding=True is the LONGEST strategy, which pads every   *)
(* row to the longest row of the list and does not read max_length; pad    *)
(* never truncates.  An empty list raises (encoded_inputs[0]).             *)
(***************************************************************************)
PadRow(row, target, side) ==
    LET difference == target - Len(row.input_ids)
    IN  IF difference <= 0 THEN row
        ELSE IF side = "right"
        THEN [input_ids |-> row.input_ids \o Repeat(PAD_TOKEN_ID, difference),
              attention_mask |-> row.attention_mask \o Repeat(0, difference)]
        ELSE [input_ids |-> Repeat(PAD_TOKEN_ID, difference) \o row.input_ids,
              attention_mask |-> Repeat(0, difference) \o row.attention_mask]

TokenizerPad(encoded, padding, max_length, side) ==
    LET longest == SeqMax([i \in 1..Len(encoded) |-> Len(encoded[i].input_ids)])
        padded == [i \in 1..Len(encoded) |->
                      IF padding THEN PadRow(encoded[i], longest, side) ELSE encoded[i]]
    IN  [input_ids |-> [i \in 1..Len(encoded) |-> padded[i].input_ids],
         attention_mask |-> [i \in 1..Len(encoded) |-> padded[i].attention_mask]]

(***************************************************************************)
(* RewardDataCollatorWithPadding, as the script constructs it:             *)
(* padding=True (the field's default), max_length=512.                     *)
(***************************************************************************)
CollatorPadding == TRUE
CollatorMaxLength == MAX_LENGTH

FeaturesJ(fs) ==
    [i \in 1..Len(fs) |->
        [input_ids |-> fs[i].input_ids_j, attention_mask |-> fs[i].attention_mask_j]]
FeaturesK(fs) ==
    [i \in 1..Len(fs) |->
        [input_ids |-> fs[i].input_ids_k, attention_mask |-> fs[i].attention_mask_k]]

\* Faulty variants of the collator: both sides padded in one call, to one
\* common length; the k rows taken from the list back to front.
CollatorJointPadding(fs, side) ==
    LET n == Len(fs)
        both == TokenizerPad(FeaturesJ(fs) \o FeaturesK(fs), CollatorPadding,
                             CollatorMaxLength, side)
    IN  [input_ids_j |-> SubSeq(both.input_ids, 1, n),
         attention_mask_j |-> SubSeq(both.attention_mask, 1, n),
         input_ids_k |-> SubSeq(both.input_ids, n + 1, 2 * n),
         attention_mask_k |-> SubSeq(both.attention_mask, n + 1, 2 * n),
         return_loss |-> TRUE]

CollatorMisaligned(fs, side) ==
    LET n == Len(fs)
        batch_j == TokenizerPad(FeaturesJ(fs), CollatorPadding, CollatorMaxLength, side)
        batch_k == TokenizerPad([i \in 1..n |-> FeaturesK(fs)[n + 1 - i]],
                                CollatorPadding, CollatorMaxLength, side)
    IN  [input_ids_j |-> batch_j.input_ids,
         attention_mask_j |-> batch_j.attention_mask,
         input_ids_k |-> batch_k.input_ids,
         attention_mask_k |-> batch_k.attention_mask,
         return_loss |-> TRUE]

RewardDataCollatorWithPadding(fs, side) ==
    LET batch_j == TokenizerPad(FeaturesJ(fs), CollatorPadding, CollatorMaxLength, side)
        batch_k == TokenizerPad(FeaturesK(fs), CollatorPadding, CollatorMaxLength, side)
    IN  [input_ids_j |-> batch_j.input_ids,
         attention_mask_j |-> batch_j.attention_mask,
         input_ids_k |-> batch_k.input_ids,
         attention_mask_k |-> batch_k.attention_mask,
         return_loss |-> TRUE]

(***************************************************************************)
(* compute_metrics: np.argmax along the (rewards_j, rewards_k) axis gives, *)
(* per example, the index of the first maximal entry; the labels are all   *)
(* zero; accuracy is the fraction of predictions equal to their label.     *)
(***************************************************************************)
\* Faulty variant: the index of the first minimal entry.
ArgMin(column) ==
    (CHOOSE i \in 1..Len(column) :
        /\ \A m \in 1..Len(column) : column[m] >= column[i]
        /\ \A m \in 1..(i - 1) : column[m] > column[i]) - 1

ArgMax(column) ==
    (CHOOSE i \in 1..Len(column) :
        /\ \A m \in 1..Len(column) : column[m] <= column[i]
        /\ \A m \in 1..(i - 1) : column[m] < column[i]) - 1

Accuracy(predictions, references) ==
    [num |-> Cardinality({i \in 1..Len(predictions) : predictions[i] = references[i]}),
     den |-> Len(predictions)]

compute_metrics(rj, rk) ==
    LET predictions == [i \in 1..Len(rj) |-> ArgMax(<<rj[i], rk[i]>>)]
        labels == [i \in 1..Len(predictions) |-> 0]
    IN  [accuracy |-> Accuracy(predictions, labels)]

(***************************************************************************)
(* RewardTrainer.compute_loss.  logsigmoid(x) = min(x, 0) - log(1 + e^-|x|)*)
(* in thousandths, x an integer.                                           *)
(***************************************************************************)
Abs(x) == IF x < 0 THEN -x ELSE x

Log1pExpNeg(n) ==
    CASE n = 0 -> 693 [] n = 1 -> 313 [] n = 2 -> 127 [] n = 3 -> 49
      [] n = 4 -> 18 [] n = 5 -> 7 [] n = 6 -> 2 [] n = 7 -> 1 [] OTHER -> 0

LogSigmoid(x) == Min(x, 0) * 1000 - Log1pExpNeg(Abs(x))

Mean(values) == [num |-> SeqSum(values), den |-> Len(values)]

Neg(fraction) == [num |-> -fraction.num, den |-> fraction.den]

\* Faulty variant: the sign of the loss dropped.
PairwiseLossNotNegated(rj, rk) == Mean([i \in 1..Len(rj) |-> LogSigmoid(rj[i] - rk[i])])

PairwiseLoss(rj, rk) == Neg(Mean([i \in 1..Len(rj) |-> LogSigmoid(rj[i] - rk[i])]))

compute_loss(rj, rk, return_outputs) ==
    LET l == PairwiseLoss(rj, rk)
    IN  IF return_outputs THEN <<l, [rewards_j |-> rj, rewards_k |-> rk]>> ELSE <<l>>

(***************************************************************************)
(* The script, top to bottom                                               *)
(***************************************************************************)
SubsetChoices == 0..MaxRows

\* What the collator, the loss and the metric leave behind is empty until
\* they run.
NothingCollated == features = <<>> /\ batch = <<>>
NothingScored == rewards_j = <<>> /\ rewards_k = <<>> /\ loss = <<>> /\ metrics = <<>>

NotStarted ==
    /\ train_dataset = <<>>
    /\ eval_dataset = <<>>
    /\ max_steps = 0
    /\ global_step = 0
    /\ checkpoints = {}
    /\ saved = FALSE
    /\ pushed = FALSE

\* The script's tokenizer is the slow LlamaTokenizer, which pads on the right.
Init ==
    /\ pc = "load_train"
    /\ NotStarted
    /\ num_train_epochs = DefaultEpochs
    /\ padding_side = "right"
    /\ NothingCollated
    /\ NothingScored

trainer_vars == <<num_train_epochs, max_steps, global_step, checkpoints, saved, pushed>>
collator_vars == <<padding_side, features, batch>>
reward_vars == <<rewards_j, rewards_k, loss, metrics>>

\* line 98
LoadTrain ==
    /\ pc = "load_train"
    /\ \E d \in RawDatasets(MaxRows) : train_dataset' = d
    /\ pc' = "select_train"
    /\ UNCHANGED <<eval_dataset, trainer_vars, collator_vars, reward_vars>>

\* lines 99-100
SelectTrain ==
    /\ pc = "select_train"
    /\ \E train_subset \in SubsetChoices :
          IF train_subset > 0
          THEN IF train_subset > Len(train_dataset)
               THEN pc' = "error" /\ UNCHANGED train_dataset
               ELSE pc' = "load_eval"
                    /\ train_dataset' = SelectRange(train_dataset, train_subset)
          ELSE pc' = "load_eval" /\ UNCHANGED train_dataset
    /\ UNCHANGED <<eval_dataset, trainer_vars, collator_vars, reward_vars>>

\* line 102
LoadEval ==
    /\ pc = "load_eval"
    /\ \E d \in RawDatasets(MaxRows) : eval_dataset' = d
    /\ pc' = "select_eval"
    /\ UNCHANGED <<train_dataset, trainer_vars, collator_vars, reward_vars>>

\* lines 103-104
SelectEval ==
    /\ pc = "select_eval"
    /\ \E eval_subset \in SubsetChoices :
          IF eval_subset > 0
          THEN IF eval_subset > Len(eval_dataset)
               THEN pc' = "error" /\ UNCHANGED eval_dataset
               ELSE pc' = "map_train"
                    /\ eval_dataset' = SelectRange(eval_dataset, eval_subset)
          ELSE pc' = "map_train" /\ UNCHANGED eval_dataset
    /\ UNCHANGED <<train_dataset, trainer_vars, collator_vars, reward_vars>>

\* lines 214-216
MapTrain ==
    /\ pc = "map_train"
    /\ train_dataset' = preprocess_function(train_dataset)
    /\ pc' = "filter_train"
    /\ UNCHANGED <<eval_dataset, trainer_vars, collator_vars, reward_vars>>

\* line 217
FilterTrain ==
    /\ pc = "filter_train"
    /\ train_dataset' = FilterDataset(train_dataset)
    /\ pc' = "map_eval"
    /\ UNCHANGED <<eval_dataset, trainer_vars, collator_vars, reward_vars>>

\* line 219
MapEval ==
    /\ pc = "map_eval"
    /\ eval_dataset' = preprocess_function(eval_dataset)
    /\ pc' = "filter_eval"
    /\ UNCHANGED <<train_dataset, trainer_vars, collator_vars, reward_vars>>

\* line 220
FilterEval ==
    /\ pc = "filter_eval"
    /\ eval_dataset' = FilterDataset(eval_dataset)
    /\ pc' = "train"
    /\ UNCHANGED <<train_dataset, trainer_vars, collator_vars, reward_vars>>

(***************************************************************************)
(* trainer.train: num_train_epochs passes over the train split in batches  *)
(* of per_device_train_batch_size rows, in the sampler's order; a          *)
(* checkpoint is written every SAVE_STEPS steps (save_strategy="steps").   *)
(***************************************************************************)
StepsPerEpoch(n) == (n + per_device_train_batch_size - 1) \div per_device_train_batch_size

SamplerOrders(n, k) ==
    {order \in [1..k -> 1..n] : \A a, b \in 1..k : a # b => order[a] # order[b]}

\* line 306, entering the loop
StartTraining ==
    /\ pc = "train"
    /\ max_steps' = num_train_epochs * StepsPerEpoch(Len(train_dataset))
    /\ global_step' = 0
    /\ pc' = "training"
    /\ UNCHANGED <<train_dataset, eval_dataset, num_train_epochs, checkpoints, saved,
                   pushed, collator_vars, reward_vars>>

\* one optimisation step: the collator builds the batch the loss is computed on
\* (the periodic evaluation reads eval_dataset and changes nothing kept here)
TrainStep ==
    /\ pc = "training"
    /\ global_step < max_steps
    /\ \E order \in SamplerOrders(Len(train_dataset),
                                   Min(per_device_train_batch_size, Len(train_dataset))) :
          /\ features' = [i \in 1..Len(order) |-> train_dataset[order[i]]]
          /\ batch' = <<RewardDataCollatorWithPadding(features', padding_side)>>
    /\ global_step' = global_step + 1
    /\ checkpoints' = IF global_step' % SAVE_STEPS = 0
                       THEN checkpoints \cup {global_step'}
                       ELSE checkpoints
    /\ UNCHANGED <<pc, train_dataset, eval_dataset, num_train_epochs, max_steps, saved,
                   pushed, padding_side, reward_vars>>

\* line 306, returning
TrainReturn ==
    /\ pc = "training"
    /\ global_step = max_steps
    /\ pc' = "save"
    /\ UNCHANGED <<train_dataset, eval_dataset, trainer_vars, collator_vars, reward_vars>>

\* line 309
SavePretrained ==
    /\ pc = "save"
    /\ saved' = TRUE
    /\ pc' = "push"
    /\ UNCHANGED <<train_dataset, eval_dataset, num_train_epochs, max_steps, global_step,
                   checkpoints, pushed, collator_vars, reward_vars>>

\* Faulty variant: the upload issued before the save.
PushBeforeSave ==
    /\ pc = "save"
    /\ pushed' = TRUE
    /\ UNCHANGED <<pc, train_dataset, eval_dataset, num_train_epochs, max_steps,
                   global_step, checkpoints, saved, collator_vars, reward_vars>>

\* line 310: the upload is attempted whenever the save returned
PushToHub ==
    /\ pc = "push"
    /\ pushed' = TRUE
    /\ pc' = "done"
    /\ UNCHANGED <<train_dataset, eval_dataset, num_train_epochs, max_steps, global_step,
                   checkpoints, saved, collator_vars, reward_vars>>

\* line 310: the registry refuses or cannot be reached; the exception ends the script
PushToHubFails ==
    /\ pc = "push"
    /\ pc' = "error"
    /\ UNCHANGED <<train_dataset, eval_dataset, trainer_vars, collator_vars, reward_vars>>

Lifecycle ==
    \/ StartTraining
    \/ TrainStep
    \/ TrainReturn
    \/ SavePretrained
    \/ PushToHub
    \/ PushToHubFails

Next ==
    \/ LoadTrain
    \/ SelectTrain
    \/ LoadEval
    \/ SelectEval
    \/ MapTrain
    \/ FilterTrain
    \/ MapEval
    \/ FilterEval
    \/ Lifecycle

Spec == Init /\ [][Next]_vars

(***************************************************************************)
(* The train / save / push lifecycle on its own, from line 306 on, for     *)
(* runs long enough to reach the training loop's periodic checkpoint.      *)
(***************************************************************************)
TokenizedSplits == {FilterDataset(preprocess_function(d)) : d \in RawDatasets(1)}
EpochChoices == {DefaultEpochs, SAVE_STEPS, SAVE_STEPS + 1, 2 * SAVE_STEPS}

InitLifecycle ==
    /\ pc = "train"
    /\ train_dataset \in TokenizedSplits
    /\ eval_dataset \in TokenizedSplits
    /\ num_train_epochs \in EpochChoices
    /\ max_steps = 0
    /\ global_step = 0
    /\ checkpoints = {}
    /\ saved = FALSE
    /\ pushed = FALSE
    /\ padding_side = "right"
    /\ NothingCollated
    /\ NothingScored

SpecLifecycle == InitLifecycle /\ [][Lifecycle]_vars

(***************************************************************************)
(* The collator on its own: any list of tokenized rows, either padding     *)
(* side.                                                                   *)
(***************************************************************************)
\* Response lengths: tokenized rows of 4, 5 and MAX_LENGTH + 1 tokens.
FeatureLens == {0, 1, MAX_LENGTH - 3}

FeatureLists ==
    UNION {{preprocess_function([r \in 1..n |-> RawRow(r, nj[r], nk[r])]) :
               nj \in [1..n -> FeatureLens], nk \in [1..n -> FeatureLens]} :
           n \in 0..MaxFeatures}

InitCollate ==
    /\ pc = "collate"
    /\ NotStarted
    /\ num_train_epochs = DefaultEpochs
    /\ padding_side \in {"left", "right"}
    /\ features \in FeatureLists
    /\ batch = <<>>
    /\ NothingScored

\* RewardDataCollatorWithPadding.__call__; tokenizer.pad raises on an empty list
Collate ==
    /\ pc = "collate"
    /\ IF features = <<>>
       THEN pc' = "error" /\ UNCHANGED batch
       ELSE pc' = "collated"
            /\ batch' = <<RewardDataCollatorWithPadding(features, padding_side)>>
    /\ UNCHANGED <<train_dataset, eval_dataset, trainer_vars, padding_side, features,
                   reward_vars>>

SpecCollate == InitCollate /\ [][Collate]_vars

(***************************************************************************)
(* The loss and the metric on their own: any batch of reward pairs.        *)
(***************************************************************************)
RewardValues == (-MaxReward)..MaxReward

InitReward ==
    /\ pc = "score"
    /\ NotStarted
    /\ num_train_epochs = DefaultEpochs
    /\ padding_side = "right"
    /\ NothingCollated
    /\ \E n \in 1..MaxEvalRows :
          /\ rewards_j \in [1..n -> RewardValues]
          /\ rewards_k \in [1..n -> RewardValues]
    /\ loss = <<>>
    /\ metrics = <<>>

\* RewardTrainer.compute_loss, called by the training step (return_outputs
\* False) and by the prediction step (return_outputs True)
ComputeLoss ==
    /\ pc = "score"
    /\ loss = <<>>
    /\ \E return_outputs \in BOOLEAN :
          loss' = compute_loss(rewards_j, rewards_k, return_outputs)
    /\ UNCHANGED <<pc, train_dataset, eval_dataset, trainer_vars, collator_vars,
                   rewards_j, rewards_k, metrics>>

\* compute_metrics on the gathered (rewards_j, rewards_k)
ComputeMetrics ==
    /\ pc = "score"
    /\ metrics = <<>>
    /\ metrics' = <<compute_metrics(rewards_j, rewards_k)>>
    /\ UNCHANGED <<pc, train_dataset, eval_dataset, trainer_vars, collator_vars,
                   rewards_j, rewards_k, loss>>

NextReward ==
    \/ ComputeLoss
    \/ ComputeMetrics

SpecReward == InitReward /\ [][NextReward]_vars

(***************************************************************************)
(* Properties                                                              *)
(***************************************************************************)
WithinLimit(rows) ==
    \A i \in 1..Len(rows) :
        Len(rows[i].input_ids_j) <= 512 /\ Len(rows[i].input_ids_k) <= 512

BatchWithinLimit(b) ==
    /\ \A i \in 1..Len(b.input_ids_j) : Len(b.input_ids_j[i]) <= 512
    /\ \A i \in 1..Len(b.input_ids_k) : Len(b.input_ids_k[i]) <= 512

TrainFiltered == pc \in {"map_eval", "filter_eval", "train", "training", "save", "push", "done"}
EvalFiltered == pc \in {"train", "training", "save", "push", "done"}

\* The question token of a tokenized sequence: BOS, "Question: ", question, ...
QuestionToken(ids) == ids[3]

\* C1: once the map and the filter have run on a split, every row left in it
\* has both sides at most 512 tokens long, and so has every list of features
\* and every batch the training loop builds from it.
C1_SurvivorsWithinLimit ==
    /\ TrainFiltered => WithinLimit(train_dataset)
    /\ EvalFiltered => WithinLimit(eval_dataset)
    /\ WithinLimit(features)
    /\ batch # <<>> => BatchWithinLimit(batch[1])

\* A training step on a split whose row 1 the filter dropped and whose row 2,
\* exactly 512 tokens long, it kept.
C1_Witness ==
    /\ pc = "training"
    /\ batch # <<>>
    /\ Len(train_dataset) = 1
    /\ QuestionToken(train_dataset[1].input_ids_j) = TokenOf(QuestionWord(2))
    /\ Len(batch[1].input_ids_k[1]) = 512

\* The rows the filter has to keep, stated without the filter's code: the
\* k-th survivor is the row at the k-th index whose two sides are both at
\* most 512 long.
KeptIndices(rows) ==
    {i \in 1..Len(rows) : Len(rows[i].input_ids_j) <= 512 /\ Len(rows[i].input_ids_k) <= 512}

Survivors(rows) ==
    [k \in 1..Cardinality(KeptIndices(rows)) |->
        rows[CHOOSE i \in KeptIndices(rows) :
                 Cardinality({m \in KeptIndices(rows) : m <= i}) = k]]

\* C9: the filter step keeps, whole and in order, exactly the rows with both
\* sides at most 512 tokens long (512 included), drops every other row as a
\* pair, and goes on to the next step of the script without an error.
C9_FilterDropsExactlyOverLength ==
    [][/\ pc = "filter_train" =>
            pc' = "map_eval" /\ train_dataset' = Survivors(train_dataset)
       /\ pc = "filter_eval" =>
            pc' = "train" /\ eval_dataset' = Survivors(eval_dataset)]_vars

\* The train filter has run: row 2, 512 tokens on both sides, is all that is
\* left, so row 1 was dropped.
C9_Witness ==
    /\ pc = "map_eval"
    /\ Len(train_dataset) = 1
    /\ QuestionToken(train_dataset[1].input_ids_j) = TokenOf(QuestionWord(2))
    /\ Len(train_dataset[1].input_ids_j) = 512
    /\ Len(train_dataset[1].input_ids_k) = 512

\* C8 as stated: model weights reach the disk only once the training loop
\* has finished, and the upload only follows the save.
C8_PersistedOnlyAfterTraining ==
    /\ (saved \/ checkpoints # {}) => pc \notin {"train", "training"}
    /\ pushed => saved

\* C8, amended: save_pretrained runs only once the training loop has done
\* all its steps; what the loop itself writes while training are checkpoints
\* at multiples of 500 steps; the upload only follows the save, and a run
\* that reaches the end of the script has uploaded.
C8_SaveAfterTrainingPushAfterSave ==
    /\ saved => pc \in {"push", "done", "error"} /\ global_step = max_steps
    /\ \A c \in checkpoints : c > 0 /\ c % 500 = 0 /\ c <= global_step
    /\ pushed => saved
    /\ pc = "done" => pushed

\* A run that checkpointed while training, then saved, then uploaded.
C8_Witness ==
    /\ pc = "done"
    /\ checkpoints # {}
    /\ saved
    /\ pushed

(***************************************************************************)
(* The collator                                                            *)
(***************************************************************************)
LongestJ(fs) ==
    CHOOSE n \in {Len(fs[i].input_ids_j) : i \in 1..Len(fs)} :
        \A i \in 1..Len(fs) : Len(fs[i].input_ids_j) <= n
LongestK(fs) ==
    CHOOSE n \in {Len(fs[i].input_ids_k) : i \in 1..Len(fs)} :
        \A i \in 1..Len(fs) : Len(fs[i].input_ids_k) <= n

\* C2: for a non-empty list of features, every j row of the batch (ids and
\* mask) is as long as the longest j sequence of the list, and every k row
\* as long as the longest k sequence: neither length reads the other side.
C2_SidesPaddedToOwnLongest ==
    pc = "collated" =>
        \A i \in 1..Len(features) :
            /\ Len(batch[1].input_ids_j[i]) = LongestJ(features)
            /\ Len(batch[1].attention_mask_j[i]) = LongestJ(features)
            /\ Len(batch[1].input_ids_k[i]) = LongestK(features)
            /\ Len(batch[1].attention_mask_k[i]) = LongestK(features)

\* Two features whose j lengths differ, whose k lengths differ, and whose
\* longest j and longest k differ.
C2_Witness ==
    /\ pc = "collated"
    /\ Len(features) = 2
    /\ Len(features[1].input_ids_j) < Len(features[2].input_ids_j)
    /\ Len(features[1].input_ids_k) > Len(features[2].input_ids_k)
    /\ LongestJ(features) < LongestK(features)

\* C3: no row of a batch is longer than the collator's max_length, whatever
\* the features.
C3_PaddedLengthCapped ==
    pc = "collated" =>
        /\ \A i \in 1..Len(features) : Len(batch[1].input_ids_j[i]) <= 512
        /\ \A i \in 1..Len(features) : Len(batch[1].input_ids_k[i]) <= 512

\* The tokens of a padded row that its attention mask marks as real.
RECURSIVE Unpadded(_, _)
Unpadded(ids, mask) ==
    IF Len(ids) = 0 THEN <<>>
    ELSE IF Len(ids) = 1 THEN (IF mask[1] = 1 THEN ids ELSE <<>>)
    ELSE LET half == Len(ids) \div 2
         IN  Unpadded(SubSeq(ids, 1, half), SubSeq(mask, 1, half))
             \o Unpadded(SubSeq(ids, half + 1, Len(ids)), SubSeq(mask, half + 1, Len(mask)))

RowKeepsFeature(row, mask, ids) ==
    /\ Len(mask) = Len(row)
    /\ Unpadded(row, mask) = ids
    /\ padding_side = "right" => SubSeq(row, 1, Len(ids)) = ids
    /\ padding_side = "left" => SubSeq(row, Len(row) - Len(ids) + 1, Len(row)) = ids

\* C10: the batch has one j row and one k row per feature, in the order of
\* the list; row i of either side holds, unchanged, the tokens of feature i
\* on that side (the row's unmasked part: its head under right padding, its
\* tail under left padding); and the two rows at i answer the same question,
\* that of example i.
C10_PairingAndOrderKept ==
    pc = "collated" =>
        /\ Len(batch[1].input_ids_j) = Len(features)
        /\ Len(batch[1].attention_mask_j) = Len(features)
        /\ Len(batch[1].input_ids_k) = Len(features)
        /\ Len(batch[1].attention_mask_k) = Len(features)
        /\ \A i \in 1..Len(features) :
              /\ RowKeepsFeature(batch[1].input_ids_j[i], batch[1].attention_mask_j[i],
                                 features[i].input_ids_j)
              /\ RowKeepsFeature(batch[1].input_ids_k[i], batch[1].attention_mask_k[i],
                                 features[i].input_ids_k)
              /\ QuestionToken(Unpadded(batch[1].input_ids_j[i], batch[1].attention_mask_j[i]))
                    = TokenOf(QuestionWord(i))
              /\ QuestionToken(Unpadded(batch[1].input_ids_k[i], batch[1].attention_mask_k[i]))
                    = TokenOf(QuestionWord(i))

\* Two features, the first padded on the j side and the second on the k side.
C10_Witness ==
    /\ pc = "collated"
    /\ Len(features) = 2
    /\ Len(batch[1].input_ids_j[1]) > Len(features[1].input_ids_j)
    /\ Len(batch[1].input_ids_k[2]) > Len(features[2].input_ids_k)

(***************************************************************************)
(* The metric and the loss                                                 *)
(***************************************************************************)
Examples == 1..Len(rewards_j)

\* C4: with reward_j > reward_k on every example the accuracy is 1.0, with
\* reward_j < reward_k on every example it is 0.0.
C4_AccuracyOnUniformBatches ==
    metrics # <<>> =>
        /\ (\A i \in Examples : rewards_j[i] > rewards_k[i]) =>
              metrics[1].accuracy.num = metrics[1].accuracy.den
        /\ (\A i \in Examples : rewards_j[i] < rewards_k[i]) =>
              metrics[1].accuracy.num = 0
        /\ metrics[1].accuracy.den = Len(rewards_j)

\* The metric computed on two examples that both have reward_j > reward_k.
C4_Witness ==
    /\ metrics # <<>>
    /\ Len(rewards_j) = 2
    /\ \A i \in Examples : rewards_j[i] > rewards_k[i]
    /\ metrics[1].accuracy = [num |-> 2, den |-> 2]

\* C5: the accuracy is the fraction of examples with reward_j > reward_k,
\* strictly: an example with equal rewards does not count as correct.
C5_AccuracyCountsStrictlyGreater ==
    metrics # <<>> =>
        metrics[1].accuracy =
            [num |-> Cardinality({i \in Examples : rewards_j[i] > rewards_k[i]}),
             den |-> Len(rewards_j)]

====
